---- MODULE Spec2Model ----
(***************************************************************************)
(* Model of cufflinks/tools.py: strip_figures, get_base_layout, subplots,  *)
(* get_subplots and scatter_matrix.                                        *)
(*                                                                         *)
(* Python objects are references: a figure is an id into chartData /       *)
(* chartLayout, a trace is an id into heap, so that the in-place           *)
(* trace.update(...) of subplots is visible through every alias.           *)
(***************************************************************************)
EXTENDS Integers, Sequences, FiniteSets, TLC

VARIABLES pc, op, figuresArg, chartData, chartLayout, chartKind, heap,
          shape, specs, theme, base_layout, columns,
          outcome, planned, rows, cols, sp, touched, taken, figs, merged, stripped

vars == <<pc, op, figuresArg, chartData, chartLayout, chartKind, heap,
          shape, specs, theme, base_layout, columns,
          outcome, planned, rows, cols, sp, touched, taken, figs, merged, stripped>>

----------------------------------------------------------------------------
(* Bounds of the explored inputs *)
MaxFigs == 4
MaxRows == 2
MaxCols == 5
MaxSpecCells == 3
MaxColumns == 3
MaxMergeFigs == 3
MaxStripTraces == 3

None == "None"

\* an empty dict / an absent mapping
Empty == <<>>

Range(s) == {s[i] : i \in DOMAIN s}

RECURSIVE SumLen(_, _)
SumLen(fs, data) ==
  IF fs = <<>> THEN 0 ELSE Len(data[Head(fs)]) + SumLen(Tail(fs), data)

RECURSIVE Concat(_, _)
Concat(fs, data) ==
  IF fs = <<>> THEN <<>> ELSE data[Head(fs)] \o Concat(Tail(fs), data)

----------------------------------------------------------------------------
(* Layout keys.  The string base ++ decimal(num) is kept as the pair       *)
(* (base, num); num = 0 stands for "no numeric suffix" ('xaxis', 'title'). *)
Key(b, n) == [base |-> b, num |-> n]

Val(t, v) == [type |-> t, val |-> v]

\* int(k[-1]) of line 183: the LAST CHARACTER of the key.  For a key with a
\* numeric suffix that is its last decimal digit; for any other key the
\* conversion raises and the except branch passes (-1 here).
LastCharInt(k) == IF k.num > 0 THEN k.num % 10 ELSE -1

PlainKeys == {"title", "legend"}

\* A theme / base layout: plain settings plus the 'xaxis' / 'yaxis' templates.
LayoutOf(plain, tag) ==
  [k \in {Key(b, 0) : b \in plain} \cup {Key("xaxis", 0), Key("yaxis", 0)} |->
     IF k.base = "xaxis" THEN Val("XAxis", tag)
     ELSE IF k.base = "yaxis" THEN Val("YAxis", tag)
     ELSE Val("plain", tag)]

\* plotlytools.getLayout(theme)
getLayout(th) == LayoutOf(PlainKeys, th)

\* auth.get_config_file()['theme']
ConfigTheme == "pearl"

Themes == {"pearl", "solar"}

CustomLayout == LayoutOf({"title"}, "custom")

----------------------------------------------------------------------------
(* subplots, lines 152-165 *)

\* lines 152-153
NormalizeFigures(arg) == IF arg.isList THEN arg.items ELSE <<arg.fig>>

\* AutoShape without the "+ len(figures) % 2" term
AutoShapeFloor(n) ==
  IF n = 1 THEN [rows |-> 1, cols |-> 1]
  ELSE [rows |-> n \div 2, cols |-> 2]

\* lines 160-165 (Python 2: / on ints is floor division)
AutoShape(n) ==
  IF n = 1 THEN [rows |-> 1, cols |-> 1]
  ELSE [rows |-> (n \div 2) + (n % 2), cols |-> 2]

\* line 155: truth value of the shape argument (None and () are false)
ShapeGiven(sh) == sh # <<>>

\* ShapeTooSmall with rows+cols in place of rows*cols
ShapeTooSmallSum(n, r, c) == n > r + c

\* line 157
ShapeTooSmall(n, r, c) == n > r * c

----------------------------------------------------------------------------
(* get_subplots, lines 284-302, around plotly's make_subplots *)

SpecKinds == {None, "2d", "3d"}

\* the cell spec at flat (row-major) position p; no specs given: every cell {}
KindAt(sps, c, p) ==
  IF sps = <<>> THEN "2d" ELSE sps[((p - 1) \div c) + 1][((p - 1) % c) + 1]

CountKind(sps, c, p, kind) == Cardinality({q \in 1..p : KindAt(sps, c, q) = kind})

Axis(name, n) == [name |-> name, num |-> n]

\* a cell of sp._grid_ref: None (isNone) or a tuple of axis references
Cell(isNone, axes) == [isNone |-> isNone, axes |-> axes]

\* sp._grid_ref flattened row by row: a blank cell is None, a 2-d cell holds
\* (x<n>, y<n>), a 3-d cell holds (scene<n>,); shared_xaxes = shared_yaxes = False
GridRef(r, c, sps) ==
  [p \in 1..(r * c) |->
     LET kind == KindAt(sps, c, p) IN
       IF kind = None THEN Cell(TRUE, <<>>)
       ELSE IF kind = "2d"
         THEN Cell(FALSE, <<Axis("x", CountKind(sps, c, p, "2d")),
                            Axis("y", CountKind(sps, c, p, "2d"))>>)
         ELSE Cell(FALSE, <<Axis("scene", CountKind(sps, c, p, "3d"))>>)]

\* layout of the skeleton figure returned by make_subplots
SkeletonLayout(r, c, sps) ==
  LET n2 == CountKind(sps, c, r * c, "2d")
      n3 == CountKind(sps, c, r * c, "3d")
  IN [k \in {Key("xaxis", n) : n \in 1..n2} \cup {Key("yaxis", n) : n \in 1..n2}
              \cup {Key("scene", n) : n \in 1..n3} |->
        IF k.base = "xaxis" THEN Val("XAxis", "plotly")
        ELSE IF k.base = "yaxis" THEN Val("YAxis", "plotly")
        ELSE Val("Scene", "plotly")]

IsAxis(v) == v.type \in {"XAxis", "YAxis"}

\* line 284
ResolveLayout(bl, th) == IF DOMAIN bl # {} THEN bl ELSE getLayout(th)

\* lines 288-300: non-axis settings are copied in; every XAxis and every YAxis
\* entry of the skeleton is updated from layout['xaxis']
StyledLayout(skel, layout) ==
  LET copied == {k \in DOMAIN layout : ~IsAxis(layout[k])}
  IN [k \in DOMAIN skel \cup copied |->
        IF k \in copied THEN layout[k]
        ELSE IF IsAxis(skel[k]) THEN Val(skel[k].type, layout[Key("xaxis", 0)].val)
        ELSE skel[k]]

\* lines 284-302
get_subplots(r, c, sps, bl, th) ==
  [data |-> <<>>,
   layout |-> StyledLayout(SkeletonLayout(r, c, sps), ResolveLayout(bl, th)),
   grid_ref |-> GridRef(r, c, sps)]

----------------------------------------------------------------------------
(* subplots, lines 170-187 *)

\* axe[0] of line 178: the first character of 'x3', 'y3', 'scene1'
FirstChar(axe) == IF axe.name = "scene" THEN "s" ELSE axe.name

\* '{0}axis'.format(axe[0]) of line 178
BindingKey(axe) == FirstChar(axe) \o "axis"

\* dict.update({k: v})
Update(d, k, v) == [j \in DOMAIN d \cup {k} |-> IF j = k THEN v ELSE d[j]]

\* lines 177-178: trace.update({'<c>axis': axe}) for every axe of the cell
RECURSIVE StampTrace(_, _)
StampTrace(tr, lr) ==
  IF lr = <<>> THEN tr
  ELSE StampTrace(Update(tr, BindingKey(Head(lr)), Head(lr)), Tail(lr))

\* NextRef without the "is not None" test: the next cell, blank or not
NextRefNoSkip(flat, cur) == IF cur + 1 > Len(flat) THEN 0 ELSE cur + 1

\* lines 172-175: list_ref.next() until a cell that is not None;
\* 0 when the generator is exhausted (StopIteration)
RECURSIVE NextRef(_, _)
NextRef(flat, cur) ==
  IF cur + 1 > Len(flat) THEN 0
  ELSE IF ~flat[cur + 1].isNone THEN cur + 1
  ELSE NextRef(flat, cur + 1)

\* StampFigure with the append dedented out of the trace loop: every trace
\* is stamped, only the last one is appended
RECURSIVE StampFigureDedent(_, _, _)
StampFigureDedent(st, traces, lr) ==
  IF traces = <<>> THEN st
  ELSE StampFigureDedent(
         [st EXCEPT !.heap[Head(traces)] = StampTrace(@, lr),
                    !.data = IF Len(traces) = 1 THEN Append(@, Head(traces)) ELSE @],
         Tail(traces), lr)

\* lines 176-179: stamp the traces of one figure in place, append them
RECURSIVE StampFigure(_, _, _)
StampFigure(st, traces, lr) ==
  IF traces = <<>> THEN st
  ELSE StampFigure([st EXCEPT !.heap[Head(traces)] = StampTrace(@, lr),
                              !.data = Append(@, Head(traces))],
                   Tail(traces), lr)

\* lines 171-179: st = [heap, data, cur, taken, raised]
RECURSIVE FillGrid(_, _, _, _)
FillGrid(st, fs, data, flat) ==
  IF fs = <<>> THEN st
  ELSE LET nxt == NextRef(flat, st.cur) IN
    IF nxt = 0
      THEN [st EXCEPT !.cur = Len(flat), !.raised = TRUE]
      ELSE FillGrid(StampFigure([st EXCEPT !.cur = nxt, !.taken = Append(@, nxt)],
                                data[Head(fs)], flat[nxt].axes),
                    Tail(fs), data, flat)

\* lines 181-186
RemoveExtra(layout, n) ==
  [k \in {j \in DOMAIN layout : ~(LastCharInt(j) > n)} |-> layout[k]]

\* what a call that raised leaves in place of the combined figure
NoFigure == [data |-> <<>>, layout |-> <<>>, grid_ref |-> <<>>]

\* plotly's make_subplots may reject a grid without rows or columns
MakeSubplotsMayRaise(r, c) == r < 1 \/ c < 1

\* subplots, lines 152-187, as one call.  arg, sh, sps, bl, th are the
\* arguments, hp / data the objects they refer to, libRaises the outcome of
\* make_subplots.  The result holds the returned figure (sp) or the exception
\* (outcome), the heap as the call leaves it, and the path of the call.
SubplotsCall(arg, sh, sps, bl, th, hp, data, libRaises) ==
  LET fl == NormalizeFigures(arg)
      n == Len(fl)
      grid == IF ShapeGiven(sh) THEN [rows |-> sh[1], cols |-> sh[2]] ELSE AutoShape(n)
      base == [outcome |-> "ok", planned |-> FALSE, rows |-> grid.rows,
               cols |-> grid.cols, sp |-> NoFigure, touched |-> 0, taken |-> <<>>,
               figs |-> fl, heap |-> hp]
  IN IF ShapeGiven(sh) /\ ShapeTooSmall(n, sh[1], sh[2])
       THEN [base EXCEPT !.outcome = "InvalidShape"]
     ELSE IF libRaises
       THEN [base EXCEPT !.outcome = "MakeSubplotsError", !.planned = TRUE]
     ELSE LET s0 == get_subplots(grid.rows, grid.cols, sps, bl, th)
              st == FillGrid([heap |-> hp, data |-> s0.data, cur |-> 0,
                              taken |-> <<>>, raised |-> FALSE],
                             fl, data, s0.grid_ref)
          IN IF st.raised
               THEN [base EXCEPT !.outcome = "StopIteration", !.planned = TRUE,
                                 !.heap = st.heap, !.touched = st.cur,
                                 !.taken = st.taken]
               ELSE [base EXCEPT !.planned = TRUE, !.heap = st.heap,
                                 !.touched = st.cur, !.taken = st.taken,
                                 !.sp = [data |-> st.data,
                                         layout |-> RemoveExtra(s0.layout, n),
                                         grid_ref |-> s0.grid_ref]]

----------------------------------------------------------------------------
(* scatter_matrix, lines 325-342 *)

\* lines 325-326
ResolveTheme(th) == IF th # None THEN th ELSE ConfigTheme

\* MatrixFigure with x and y of the scatter exchanged
MatrixFigureSwapped(i, j) ==
  IF i = j THEN [kind |-> "histogram", x |-> i, y |-> i]
  ELSE [kind |-> "scatter", x |-> i, y |-> j]

\* lines 331-335: the figure built for row column i and column column j
MatrixFigure(i, j) ==
  IF i = j THEN [kind |-> "histogram", x |-> i, y |-> i]
  ELSE [kind |-> "scatter", x |-> j, y |-> i]

\* lines 328-335: for i in df.columns: for j in df.columns: figs.append(...)
MatrixFigures(cs) ==
  LET n == Len(cs) IN
    [p \in 1..(n * n) |-> MatrixFigure(cs[((p - 1) \div n) + 1], cs[((p - 1) % n) + 1])]

\* lines 336-338
MatrixLayout(th) ==
  LET l == getLayout(th) IN
    [k \in DOMAIN l |-> IF IsAxis(l[k]) THEN Val(l[k].type, l[k].val \o ",showgrid=False")
                        ELSE l[k]]

\* line 341
MatrixFinish(layout) ==
  LET l1 == Update(layout, Key("bargap", 0), Val("plain", ".02"))
  IN Update(l1, Key("showlegend", 0), Val("plain", "False"))

----------------------------------------------------------------------------
\* strip_figures inserting each new figure at the front of the list
RECURSIVE strip_figures_front(_, _)
strip_figures_front(data, layout) ==
  IF data = <<>> THEN <<>>
  ELSE strip_figures_front(Tail(data), layout)
         \o <<[data |-> <<Head(data)>>, layout |-> layout]>>

(* strip_figures, lines 16-19 *)
RECURSIVE strip_figures(_, _)
strip_figures(data, layout) ==
  IF data = <<>> THEN <<>>
  ELSE <<[data |-> <<Head(data)>>, layout |-> layout]>> \o strip_figures(Tail(data), layout)

\* MergeInto that keeps a key already set (layout.setdefault(k, v))
RECURSIVE MergeIntoFirstWins(_, _, _)
MergeIntoFirstWins(layout, fl, layouts) ==
  IF fl = <<>> THEN layout
  ELSE MergeIntoFirstWins([k \in DOMAIN layout \cup DOMAIN layouts[Head(fl)] |->
                             IF k \in DOMAIN layout THEN layout[k]
                             ELSE layouts[Head(fl)][k]],
                          Tail(fl), layouts)

(* get_base_layout, lines 32-36 *)
RECURSIVE MergeInto(_, _, _)
MergeInto(layout, fl, layouts) ==
  IF fl = <<>> THEN layout
  ELSE MergeInto([k \in DOMAIN layout \cup DOMAIN layouts[Head(fl)] |->
                    IF k \in DOMAIN layouts[Head(fl)] THEN layouts[Head(fl)][k]
                    ELSE layout[k]],
                 Tail(fl), layouts)

get_base_layout(fl, layouts) == MergeInto(Empty, fl, layouts)

----------------------------------------------------------------------------
(* Inputs *)

SeqsUpTo(S, n) == UNION {[1..m -> S] : m \in 0..n}

\* the figures a caller of subplots holds: figure['data'] of each, as trace ids
CallerFigures == <<<<1, 2>>, <<3>>>>

Charts == DOMAIN CallerFigures

FigureArgs ==
  {[isList |-> TRUE, items |-> f, fig |-> 0] : f \in SeqsUpTo(Charts, MaxFigs)}
    \cup {[isList |-> FALSE, items |-> <<>>, fig |-> c] : c \in Charts}

Shapes == {<<>>} \cup {<<r, c>> : r \in 0..MaxRows, c \in 0..MaxCols}

\* the specs keyword: absent, or one cell spec per cell of the given shape
SpecsFor(sh) ==
  IF sh # <<>> /\ sh[1] >= 1 /\ sh[2] >= 1 /\ sh[1] * sh[2] <= MaxSpecCells
    THEN {<<>>} \cup [1..sh[1] -> [1..sh[2] -> SpecKinds]]
    ELSE {<<>>}

BaseLayouts == {Empty, CustomLayout}

LayoutKeys == {Key("title", 0), Key("legend", 0)}
LayoutValues == {Val("plain", "v1"), Val("plain", "v2")}
Layouts == UNION {[D -> LayoutValues] : D \in SUBSET LayoutKeys}

ColumnNames == {"a", "b", "c"}

Idle ==
  /\ pc = "call"
  /\ outcome = None /\ planned = FALSE /\ rows = 0 /\ cols = 0
  /\ sp = NoFigure /\ touched = 0 /\ taken = <<>> /\ figs = <<>>
  /\ merged = Empty /\ stripped = <<>>

InitSubplots ==
  /\ op = "subplots"
  /\ figuresArg \in FigureArgs
  /\ chartData = CallerFigures
  /\ heap = [t \in UNION {Range(CallerFigures[c]) : c \in Charts} |-> Empty]
  /\ chartLayout = Empty /\ chartKind = Empty
  /\ shape \in Shapes
  /\ specs \in SpecsFor(shape)
  /\ base_layout \in BaseLayouts
  /\ theme \in (IF base_layout = Empty THEN Themes ELSE {"pearl"})
  /\ columns = <<>>

InitScatterMatrix ==
  /\ op = "scatter_matrix"
  /\ columns \in SeqsUpTo(ColumnNames, MaxColumns)
  /\ theme \in {None} \cup Themes
  /\ figuresArg = [isList |-> TRUE, items |-> <<>>, fig |-> 0]
  /\ chartData = Empty /\ chartLayout = Empty /\ chartKind = Empty /\ heap = Empty
  /\ shape = <<>> /\ specs = <<>> /\ base_layout = Empty

InitGetBaseLayout ==
  /\ op = "get_base_layout"
  /\ \E n \in 0..MaxMergeFigs :
       /\ figuresArg = [isList |-> TRUE, items |-> [i \in 1..n |-> i], fig |-> 0]
       /\ chartLayout \in [1..n -> Layouts]
       /\ chartData = [i \in 1..n |-> <<>>]
  /\ chartKind = Empty /\ heap = Empty
  /\ shape = <<>> /\ specs = <<>> /\ theme = None /\ base_layout = Empty
  /\ columns = <<>>

InitStripFigures ==
  /\ op = "strip_figures"
  /\ figuresArg = [isList |-> FALSE, items |-> <<>>, fig |-> 1]
  /\ \E t \in 0..MaxStripTraces : \E l \in Layouts :
       /\ chartData = [c \in {1} |-> [i \in 1..t |-> i]]
       /\ chartLayout = [c \in {1} |-> l]
       /\ heap = [i \in 1..t |-> Empty]
  /\ chartKind = Empty
  /\ shape = <<>> /\ specs = <<>> /\ theme = None /\ base_layout = Empty
  /\ columns = <<>>

Init ==
  /\ Idle
  /\ \/ InitSubplots
     \/ InitScatterMatrix
     \/ InitGetBaseLayout
     \/ InitStripFigures

----------------------------------------------------------------------------
(* Operations *)

Subplots ==
  /\ pc = "call" /\ op = "subplots"
  /\ \E libRaises \in BOOLEAN :
       LET r == SubplotsCall(figuresArg, shape, specs, base_layout, theme,
                             heap, chartData, libRaises)
       IN /\ libRaises => MakeSubplotsMayRaise(r.rows, r.cols)
          /\ outcome' = r.outcome /\ planned' = r.planned
          /\ rows' = r.rows /\ cols' = r.cols /\ sp' = r.sp
          /\ touched' = r.touched /\ taken' = r.taken /\ figs' = r.figs
          /\ heap' = r.heap
  /\ pc' = "done"
  /\ UNCHANGED <<op, figuresArg, chartData, chartLayout, chartKind, shape, specs,
                 theme, base_layout, columns, merged, stripped>>

ScatterMatrix ==
  /\ pc = "call" /\ op = "scatter_matrix"
  /\ \E libRaises \in BOOLEAN :
       LET n == Len(columns)
           kinds == MatrixFigures(columns)
           \* every figure df.iplot(asFigure=True) returns is a new object
           \* holding one new trace
           arg == [isList |-> TRUE, items |-> [p \in 1..(n * n) |-> p], fig |-> 0]
           data == [p \in 1..(n * n) |-> <<p>>]
           hp == [p \in 1..(n * n) |-> Empty]
           layout == MatrixLayout(ResolveTheme(theme))
           r == SubplotsCall(arg, <<n, n>>, <<>>, layout, "pearl", hp, data, libRaises)
       IN /\ libRaises => MakeSubplotsMayRaise(r.rows, r.cols)
          /\ figuresArg' = arg /\ chartData' = data /\ chartKind' = kinds
          /\ shape' = <<n, n>> /\ base_layout' = layout
          /\ outcome' = r.outcome /\ planned' = r.planned
          /\ rows' = r.rows /\ cols' = r.cols
          /\ sp' = IF r.outcome = "ok"
                     THEN [r.sp EXCEPT !.layout = MatrixFinish(@)] ELSE r.sp
          /\ touched' = r.touched /\ taken' = r.taken /\ figs' = r.figs
          /\ heap' = r.heap
  /\ pc' = "done"
  /\ UNCHANGED <<op, chartLayout, specs, theme, columns, merged, stripped>>

GetBaseLayout ==
  /\ pc = "call" /\ op = "get_base_layout"
  /\ merged' = get_base_layout(figuresArg.items, chartLayout)
  /\ outcome' = "ok" /\ pc' = "done"
  /\ UNCHANGED <<op, figuresArg, chartData, chartLayout, chartKind, heap, shape,
                 specs, theme, base_layout, columns, planned, rows, cols, sp,
                 touched, taken, figs, stripped>>

StripFigures ==
  /\ pc = "call" /\ op = "strip_figures"
  /\ stripped' = strip_figures(chartData[figuresArg.fig], chartLayout[figuresArg.fig])
  /\ outcome' = "ok" /\ pc' = "done"
  /\ UNCHANGED <<op, figuresArg, chartData, chartLayout, chartKind, heap, shape,
                 specs, theme, base_layout, columns, planned, rows, cols, sp,
                 touched, taken, figs, merged>>

Next == Subplots \/ ScatterMatrix \/ GetBaseLayout \/ StripFigures

Spec == Init /\ [][Next]_vars

----------------------------------------------------------------------------
(* Properties *)

Done(o) == pc = "done" /\ op = o

\* the figures argument as a list, read off the inputs of the call
GivenFigures == IF figuresArg.isList THEN figuresArg.items ELSE <<figuresArg.fig>>

NumFigures == Len(GivenFigures)

\* flat positions of the grid cells whose spec is not None
Eligible == {p \in 1..(rows * cols) : KindAt(specs, cols, p) # None}

Has3d == \E p \in 1..(rows * cols) : KindAt(specs, cols, p) = "3d"

\* the grid was built: no invalid shape, make_subplots returned
GridBuilt == planned /\ outcome # "MakeSubplotsError"

\* C1: without an explicit shape and with n >= 1 figures the grid is (1, 1)
\* for n = 1 and (ceil(n/2), 2) for n > 1, so rows*cols >= n and cols <= 2.
C1_AutoShape ==
  (Done("subplots") /\ shape = <<>> /\ NumFigures >= 1) =>
    /\ NumFigures = 1 => (rows = 1 /\ cols = 1)
    /\ NumFigures > 1 => (cols = 2 /\ 2 * rows >= NumFigures /\ 2 * (rows - 1) < NumFigures)
    /\ rows * cols >= NumFigures
    /\ cols <= 2

C1_Witness ==
  Done("subplots") /\ shape = <<>> /\ NumFigures = 3 /\ rows = 2 /\ cols = 2

\* C3: an explicit shape with rows*cols < len(figures) makes the call raise
\* the invalid-shape exception; no figure is returned, no grid is built and no
\* trace is stamped.
C3_InvalidShape ==
  (Done("subplots") /\ shape # <<>> /\ shape[1] * shape[2] < NumFigures) =>
    /\ outcome = "InvalidShape"
    /\ sp = NoFigure
    /\ ~planned
    /\ taken = <<>> /\ touched = 0
    /\ \A t \in DOMAIN heap : heap[t] = Empty

C3_Witness ==
  /\ Done("subplots") /\ shape = <<1, 1>> /\ NumFigures = 2
  /\ outcome = "InvalidShape"

\* C4: a grid with rows*cols >= len(figures) but fewer non-None cells than
\* figures makes the call raise on the exhausted cell walk (StopIteration);
\* no figure is returned.
C4_GridExhausted ==
  (Done("subplots") /\ GridBuilt /\ rows * cols >= NumFigures
     /\ Cardinality(Eligible) < NumFigures) =>
    /\ outcome = "StopIteration"
    /\ sp = NoFigure

C4_Witness ==
  /\ Done("subplots") /\ shape = <<1, 2>> /\ specs = <<<<None, "2d">>>>
  /\ NumFigures = 2 /\ outcome = "StopIteration"

\* the figure (index into the input list) that output trace q comes from
OwnerOf(q) ==
  CHOOSE i \in 1..NumFigures :
    /\ SumLen(SubSeq(GivenFigures, 1, i), chartData) >= q
    /\ SumLen(SubSeq(GivenFigures, 1, i - 1), chartData) < q

\* the i-th cell of the row-major walk that is not blank
NthEligible(i) ==
  CHOOSE p \in Eligible : Cardinality({q \in Eligible : q <= p}) = i

\* trace tr carries the x and the y axis reference xy of a grid cell
BoundToPair(tr, xy) ==
  /\ {"xaxis", "yaxis"} \subseteq DOMAIN tr
  /\ tr["xaxis"] = xy[1] /\ tr["yaxis"] = xy[2]

\* the x/y pairs the grid holds
GridPairs == {sp.grid_ref[p].axes : p \in {q \in Eligible : KindAt(specs, cols, q) = "2d"}}

CarriesGridPair(tr) == \E xy \in GridPairs : BoundToPair(tr, xy)

C10_Original ==
  (Done("subplots") /\ outcome = "ok") =>
    /\ sp.data = Concat(GivenFigures, chartData)
    /\ \A i \in 1..NumFigures : taken[i] = NthEligible(i)
    /\ \A q \in DOMAIN sp.data :
         LET cell == sp.grid_ref[NthEligible(OwnerOf(q))].axes
         IN \A a \in Range(cell) :
              /\ BindingKey(a) \in DOMAIN heap[sp.data[q]]
              /\ heap[sp.data[q]][BindingKey(a)] = a

\* the layout get_subplots hands back, before the "Remove extra plots" loop
PlannedLayout == get_subplots(rows, cols, specs, base_layout, theme).layout

\* C9 as stated: after a successful call no layout entry with a numeric
\* suffix greater than len(figures) is left, whatever the grid size, and
\* every other entry is kept as it was.
C9_Original ==
  (Done("subplots") /\ outcome = "ok") =>
    /\ \A k \in DOMAIN sp.layout : k.num <= NumFigures
    /\ \A k \in DOMAIN PlannedLayout :
         k.num <= NumFigures => (k \in DOMAIN sp.layout /\ sp.layout[k] = PlannedLayout[k])

\* C5: scatter_matrix hands subplots n*n figures with shape (n, n), row by
\* row; the figure for row column i and column column j is a histogram of i
\* when i = j and a scatter of j (x) against i (y) otherwise.
C5_MatrixOrder ==
  Done("scatter_matrix") =>
    LET n == Len(columns) IN
      /\ Len(figs) = n * n
      /\ shape = <<n, n>> /\ rows = n /\ cols = n
      /\ DOMAIN chartKind = 1..(n * n)
      /\ \A r \in 1..n : \A c \in 1..n :
           LET f == chartKind[figs[(r - 1) * n + c]] IN
             /\ f.kind = "histogram" <=> columns[r] = columns[c]
             /\ f.kind = "scatter" <=> columns[r] # columns[c]
             /\ f.kind = "histogram" => f.x = columns[r]
             /\ f.kind = "scatter" => (f.x = columns[c] /\ f.y = columns[r])
      /\ columns = <<"a", "b">> =>
           /\ [p \in 1..4 |-> chartKind[figs[p]].kind]
                = <<"histogram", "scatter", "scatter", "histogram">>
           /\ chartKind[figs[2]].y = "a" /\ chartKind[figs[2]].x = "b"
           /\ chartKind[figs[3]].y = "b" /\ chartKind[figs[3]].x = "a"

C5_Witness ==
  /\ Done("scatter_matrix") /\ columns = <<"a", "b">> /\ outcome = "ok"
  /\ Len(sp.data) = 4 /\ rows = 2 /\ cols = 2

\* C6 as stated: scatter_matrix on a table without columns is rejected with
\* its own error before any grid is planned.
C6_Original ==
  (Done("scatter_matrix") /\ columns = <<>>) =>
    /\ outcome = "DegenerateInputError"
    /\ ~planned

\* the last figure of the list whose layout has key k
LastWith(k) ==
  CHOOSE i \in DOMAIN chartLayout :
    /\ k \in DOMAIN chartLayout[i]
    /\ \A j \in DOMAIN chartLayout : (j > i) => k \notin DOMAIN chartLayout[j]

\* C7: get_base_layout returns the union of the figures' layout keys, each
\* with the value of the last figure (in input order) that has the key; the
\* empty list gives the empty mapping.
C7_LastWriteWins ==
  Done("get_base_layout") =>
    /\ DOMAIN merged = UNION {DOMAIN chartLayout[i] : i \in DOMAIN chartLayout}
    /\ \A k \in DOMAIN merged : merged[k] = chartLayout[LastWith(k)][k]
    /\ NumFigures = 0 => DOMAIN merged = {}

C7_Witness ==
  /\ Done("get_base_layout") /\ NumFigures = 2
  /\ Key("title", 0) \in DOMAIN chartLayout[1] \cap DOMAIN chartLayout[2]
  /\ chartLayout[1][Key("title", 0)] # chartLayout[2][Key("title", 0)]
  /\ Key("legend", 0) \in DOMAIN chartLayout[1] \ DOMAIN chartLayout[2]
  /\ merged[Key("title", 0)] = chartLayout[2][Key("title", 0)]

\* C8: strip_figures returns one figure per trace, in trace order, the i-th
\* holding exactly the i-th trace, each with the layout of the input figure.
C8_Strip ==
  Done("strip_figures") =>
    LET fig == figuresArg.fig IN
      /\ Len(stripped) = Len(chartData[fig])
      /\ \A i \in DOMAIN stripped :
           /\ stripped[i].data = <<chartData[fig][i]>>
           /\ stripped[i].layout = chartLayout[fig]

C8_Witness ==
  /\ Done("strip_figures") /\ Len(chartData[1]) = 3 /\ Len(stripped) = 3
  /\ DOMAIN chartLayout[1] # {}

====
